---- MODULE Spec2Model ----
(***************************************************************************)
(* Model of the matchmaking signalling server of src/src/matchbox.rs:      *)
(* ServerState (four maps, each behind its own mutex) and the              *)
(* per-connection task MatchmakingDemoTopology::state_machine.             *)
(*                                                                         *)
(* Every critical section of a mutex is one atomic step; add_peer and      *)
(* remove_peer take two locks one after the other and are two steps each,  *)
(* so that the tasks of other connections may run in between, as they do   *)
(* on the multi-threaded runtime.  Critical sections that touch only the   *)
(* pending entries of the connection itself are joined to the next step.   *)
(* An outbound handle is the unbounded channel of a connection;            *)
(* outbox[p] is the sequence of events enqueued on the channel of peer p.  *)
(* Its receiving half lives in the transport, outside this repository; a   *)
(* send on it is taken to succeed.                                         *)
(*                                                                         *)
(* Specifications: Spec (handshake, join, departure), SpecRelay (Spec and  *)
(* the message loop), SpecSeq (the directory used by a single caller),     *)
(* SpecQuery (Spec with the capacity parsed from the query, panics and     *)
(* poisoned mutex included), SpecHandshake (the pending maps lock by lock, *)
(* addresses shared by connections), SpecLive (Spec with fair departures). *)
(***************************************************************************)
EXTENDS Integers, Sequences, FiniteSets, TLC

\* ------------------------------------------------------------------ bounds
NumPeers == 3
MaxCap == 2
MaxRequests == 1

\* ------------------------------------------------------------ value types
\* PeerId: one per connection; the connection's address is modelled by the
\* same number (the transport hands out both).
Peers == 1..NumPeers

\* Option<T>
None == << >>
Some(x) == << x >>

RoomIds == {"lobby"}
\* RequestedRoom { id, next: Option<usize> }
RequestedRoom == [id : RoomIds, next : {None} \cup {Some(n) : n \in 1..MaxCap}]

\* Peer { uuid, room, sender }: sender names the channel the handle feeds.
Peer(p, r) == [uuid |-> p, room |-> r, sender |-> p]

Payloads == {"offer"}

\* JsonPeerEvent
NewPeer(p) == [type |-> "NewPeer", peer |-> p, data |-> ""]
PeerLeft(p) == [type |-> "PeerLeft", peer |-> p, data |-> ""]
Signal(p, d) == [type |-> "Signal", peer |-> p, data |-> d]

\* What a connection's input yields: PeerRequest::Signal / KeepAlive, the
\* ClientRequestError kinds, and the end of the stream
SignalRequest(to, d) == [kind |-> "Signal", receiver |-> to, data |-> d]
Other(k) == [kind |-> k, receiver |-> 0, data |-> ""]
Inputs ==
    {SignalRequest(to, d) : to \in Peers, d \in Payloads}
    \cup {Other(k) : k \in {"KeepAlive", "Json", "UnsupportedType", "Axum", "Close", "End"}}
Fatal(req) == req.kind \in {"Axum", "Close", "End"}

\* ------------------------------------------------------------- HashMap ops
EmptyMap == [x \in {} |-> {}]
MapInsert(m, k, v) == [x \in DOMAIN m \cup {k} |-> IF x = k THEN v ELSE m[x]]
MapRemove(m, k) == [x \in DOMAIN m \ {k} |-> m[x]]
MapGet(m, k) == IF k \in DOMAIN m THEN Some(m[k]) ELSE None

VARIABLES
    clients_waiting,  \* SocketAddr -> RequestedRoom
    clients_in_queue, \* PeerId -> RequestedRoom
    clients,          \* PeerId -> Peer
    rooms,            \* RequestedRoom -> set of PeerId
    outbox,           \* per peer: the events enqueued on its channel
    pc,               \* per connection: position of its callbacks / task
    room,             \* per connection: the local `room` (Option)
    peers,            \* per connection: the Vec returned by add_peer
    todo,             \* per connection: what the running for loop has left
    request,          \* per connection: the input item being handled (Option)
    removed_peer,     \* per connection: result of remove_peer (Option)
    nrequests         \* requests and recoverable failures read so far

vars == << clients_waiting, clients_in_queue, clients, rooms, outbox, pc,
           room, peers, todo, request, removed_peer, nrequests >>

directory == << clients_waiting, clients_in_queue, clients, rooms >>

\* ---------------------------------------------------- ServerState methods
\* One definition per critical section.

PrevPeersById(rs, r) == UNION {rs[x] : x \in {y \in DOMAIN rs : y.id = r.id}}

\* add_peer, second lock: the snapshot of the room before the mutation
PrevPeers(rs, r) == IF r \in DOMAIN rs THEN rs[r] ELSE {}

AddPeerRoomsBug(rs, r, id) ==
    MapInsert(rs, r, PrevPeers(rs, r) \cup {id})

AddPeerRoomsOffByOne(rs, r, id) ==
    LET prev == PrevPeers(rs, r) IN
    IF r.next = None
    THEN MapInsert(rs, r, prev \cup {id})
    ELSE IF Cardinality(prev) = r.next[1]
         THEN MapInsert(rs, r, {})
         ELSE MapInsert(rs, r, prev \cup {id})

\* add_peer, second lock: the room-fill algorithm
AddPeerRooms(rs, r, id) ==
    LET prev == PrevPeers(rs, r) IN
    IF r.next = None
    THEN MapInsert(rs, r, prev \cup {id})
    ELSE IF Cardinality(prev) = r.next[1] - 1
         THEN MapInsert(rs, r, {})
         ELSE MapInsert(rs, r, prev \cup {id})

GetPeer(cl, id) == MapGet(cl, id)

GetRoomPeers(rs, r) == IF r \in DOMAIN rs THEN rs[r] ELSE {}

RemovePeerRoomsBug(rs, r, id) ==
    IF r \in DOMAIN rs THEN [rs EXCEPT ![r] = {}] ELSE rs

\* remove_peer, second lock: best-effort removal from the room of the peer
RemovePeerRooms(rs, r, id) ==
    IF r \in DOMAIN rs THEN [rs EXCEPT ![r] = @ \ {id}] ELSE rs

\* try_send: the new contents of the channels
TrySend(cl, ob, id, msg) ==
    IF id \in DOMAIN cl
    THEN [ob EXCEPT ![cl[id].sender] = Append(@, msg)]
    ELSE ob

\* number of events e in channel q
Count(q, e) == Cardinality({i \in 1..Len(q) : q[i] = e})

\* --------------------------------------------------------------------- Init
Init ==
    /\ clients_waiting = EmptyMap
    /\ clients_in_queue = EmptyMap
    /\ clients = EmptyMap
    /\ rooms = EmptyMap
    /\ outbox = [p \in Peers |-> << >>]
    /\ pc = [p \in Peers |-> "init"]
    /\ room = [p \in Peers |-> None]
    /\ peers = [p \in Peers |-> {}]
    /\ todo = [p \in Peers |-> {}]
    /\ request = [p \in Peers |-> None]
    /\ removed_peer = [p \in Peers |-> None]
    /\ nrequests = 0

\* ------------------------------------------------- handshake callbacks
\* on_connection_request: add_waiting_client(origin, room)
OnConnectionRequest(p, r) ==
    /\ pc[p] = "init"
    /\ clients_waiting' = MapInsert(clients_waiting, p, r)
    /\ pc' = [pc EXCEPT ![p] = "waiting"]
    /\ UNCHANGED << clients_in_queue, clients, rooms, outbox, room, peers,
                    todo, request, removed_peer, nrequests >>

\* on_id_assignment: assign_id_to_waiting_client(origin, peer_id).  Its two
\* critical sections touch only the entries of this connection, which no
\* other connection reads: they are taken as one step here.
OnIdAssignment(p) ==
    /\ pc[p] = "waiting"
    /\ p \in DOMAIN clients_waiting
    /\ clients_waiting' = MapRemove(clients_waiting, p)
    /\ clients_in_queue' = MapInsert(clients_in_queue, p, clients_waiting[p])
    /\ pc' = [pc EXCEPT ![p] = "queued"]
    /\ UNCHANGED << clients, rooms, outbox, room, peers, todo, request,
                    removed_peer, nrequests >>

\* ------------------------------------------------------- state_machine
\* remove_waiting_peer(peer_id), then add_peer, first lock:
\* clients.insert(peer.uuid, peer)
AddPeerInsert(p) ==
    /\ pc[p] = "queued"
    /\ p \in DOMAIN clients_in_queue
    /\ room' = [room EXCEPT ![p] = Some(clients_in_queue[p])]
    /\ clients_in_queue' = MapRemove(clients_in_queue, p)
    /\ clients' = MapInsert(clients, p, Peer(p, clients_in_queue[p]))
    /\ pc' = [pc EXCEPT ![p] = "add_rooms"]
    /\ UNCHANGED << clients_waiting, rooms, outbox, peers, todo, request,
                    removed_peer, nrequests >>

\* add_peer, second lock; the for loop over the returned peers starts
AddPeerJoin(p) ==
    /\ pc[p] = "add_rooms"
    /\ LET r == room[p][1]
           prev == PrevPeers(rooms, r) IN
       /\ rooms' = AddPeerRooms(rooms, r, p)
       /\ peers' = [peers EXCEPT ![p] = prev]
       /\ todo' = [todo EXCEPT ![p] = prev]
       /\ pc' = [pc EXCEPT ![p] = IF prev = {} THEN "active" ELSE "notify"]
    /\ UNCHANGED << clients_waiting, clients_in_queue, clients, outbox, room,
                    request, removed_peer, nrequests >>

NotifyNewPeerBug(p, m) ==
    /\ pc[p] = "notify"
    /\ m \in todo[p]
    /\ outbox' = TrySend(clients, outbox, m, NewPeer(p))
    /\ todo' = [todo EXCEPT ![p] = IF m \in DOMAIN clients THEN @ \ {m} ELSE {}]
    /\ pc' = [pc EXCEPT ![p] = IF todo'[p] = {} THEN "active" ELSE "notify"]
    /\ UNCHANGED << directory, room, peers, request, removed_peer, nrequests >>

NotifyNewPeerSwap(p, m) ==
    /\ pc[p] = "notify"
    /\ m \in todo[p]
    /\ outbox' = TrySend(clients, outbox, p, NewPeer(m))
    /\ todo' = [todo EXCEPT ![p] = @ \ {m}]
    /\ pc' = [pc EXCEPT ![p] = IF todo'[p] = {} THEN "active" ELSE "notify"]
    /\ UNCHANGED << directory, room, peers, request, removed_peer, nrequests >>

\* one iteration of `for peer_id in peers`: try_send(peer_id, NewPeer(me));
\* an Err is logged and the loop goes on
NotifyNewPeer(p, m) ==
    /\ pc[p] = "notify"
    /\ m \in todo[p]
    /\ outbox' = TrySend(clients, outbox, m, NewPeer(p))
    /\ todo' = [todo EXCEPT ![p] = @ \ {m}]
    /\ pc' = [pc EXCEPT ![p] = IF todo'[p] = {} THEN "active" ELSE "notify"]
    /\ UNCHANGED << directory, room, peers, request, removed_peer, nrequests >>

\* `receiver.next().await` yields a request or a recoverable parse failure
ReceiveRequest(p, req) ==
    /\ pc[p] = "active"
    /\ req \in Inputs /\ ~Fatal(req)
    /\ nrequests < MaxRequests
    /\ request' = [request EXCEPT ![p] = Some(req)]
    /\ nrequests' = nrequests + 1
    /\ pc' = [pc EXCEPT ![p] = "handle"]
    /\ UNCHANGED << directory, outbox, room, peers, todo, removed_peer >>

\* `receiver.next().await` yields None (the stream ended), a transport
\* error or a close frame
ReceiveFatal(p, req) ==
    /\ pc[p] = "active"
    /\ req \in Inputs /\ Fatal(req)
    /\ request' = [request EXCEPT ![p] = Some(req)]
    /\ pc' = [pc EXCEPT ![p] = "handle"]
    /\ UNCHANGED << directory, outbox, room, peers, todo, removed_peer, nrequests >>

SignalLookupBug(p) ==
    /\ pc[p] = "handle"
    /\ request[p][1].kind = "Signal"
    /\ IF GetPeer(clients, request[p][1].receiver) # None
       THEN /\ pc' = [pc EXCEPT ![p] = "sig_send"]
            /\ UNCHANGED << request, clients, removed_peer >>
       ELSE /\ pc' = [pc EXCEPT ![p] = "rm_rooms"]
            /\ request' = [request EXCEPT ![p] = None]
            /\ removed_peer' = [removed_peer EXCEPT ![p] = GetPeer(clients, p)]
            /\ clients' = MapRemove(clients, p)
    /\ UNCHANGED << clients_waiting, clients_in_queue, rooms, outbox, room,
                    peers, todo, nrequests >>

\* PeerRequest::Signal, get_peer(&receiver): the peer found is cloned and
\* the lock released; not found: a warning
SignalLookup(p) ==
    /\ pc[p] = "handle"
    /\ request[p][1].kind = "Signal"
    /\ IF GetPeer(clients, request[p][1].receiver) # None
       THEN /\ pc' = [pc EXCEPT ![p] = "sig_send"]
            /\ UNCHANGED request
       ELSE /\ pc' = [pc EXCEPT ![p] = "active"]
            /\ request' = [request EXCEPT ![p] = None]
    /\ UNCHANGED << directory, outbox, room, peers, todo, removed_peer, nrequests >>

SignalEventBug(p, req) == Signal(req.receiver, req.data)

\* the event relayed for a Signal request of peer p
SignalEvent(p, req) == Signal(p, req.data)

\* peer.sender.send(Ok(event)) on the cloned handle
SignalSend(p) ==
    /\ pc[p] = "sig_send"
    /\ outbox' = [outbox EXCEPT ![Peer(request[p][1].receiver, None).sender] =
                     Append(@, SignalEvent(p, request[p][1]))]
    /\ request' = [request EXCEPT ![p] = None]
    /\ pc' = [pc EXCEPT ![p] = "active"]
    /\ UNCHANGED << directory, room, peers, todo, removed_peer, nrequests >>

KeepAliveBug(p) ==
    /\ pc[p] = "handle"
    /\ request[p][1].kind = "KeepAlive"
    /\ request' = [request EXCEPT ![p] = None]
    /\ rooms' = RemovePeerRooms(rooms, room[p][1], p)
    /\ pc' = [pc EXCEPT ![p] = "active"]
    /\ UNCHANGED << clients_waiting, clients_in_queue, clients, outbox, room,
                    peers, todo, removed_peer, nrequests >>

\* PeerRequest::KeepAlive
KeepAlive(p) ==
    /\ pc[p] = "handle"
    /\ request[p][1].kind = "KeepAlive"
    /\ request' = [request EXCEPT ![p] = None]
    /\ pc' = [pc EXCEPT ![p] = "active"]
    /\ UNCHANGED << directory, outbox, room, peers, todo, removed_peer, nrequests >>

RecoverableErrorBug(p) ==
    /\ pc[p] = "handle"
    /\ request[p][1].kind \in {"Json", "UnsupportedType"}
    /\ request' = [request EXCEPT ![p] = None]
    /\ removed_peer' = [removed_peer EXCEPT ![p] = GetPeer(clients, p)]
    /\ clients' = MapRemove(clients, p)
    /\ pc' = [pc EXCEPT ![p] = "rm_rooms"]
    /\ UNCHANGED << clients_waiting, clients_in_queue, rooms, outbox, room,
                    peers, todo, nrequests >>

\* ClientRequestError::Json | UnsupportedType: continue
RecoverableError(p) ==
    /\ pc[p] = "handle"
    /\ request[p][1].kind \in {"Json", "UnsupportedType"}
    /\ request' = [request EXCEPT ![p] = None]
    /\ pc' = [pc EXCEPT ![p] = "active"]
    /\ UNCHANGED << directory, outbox, room, peers, todo, removed_peer, nrequests >>

\* The loop ends (end of the stream, ClientRequestError::Axum or ::Close);
\* remove_peer, first lock: clients.remove(peer_id)
RemovePeerClients(p) ==
    /\ pc[p] = "handle"
    /\ Fatal(request[p][1])
    /\ request' = [request EXCEPT ![p] = None]
    /\ removed_peer' = [removed_peer EXCEPT ![p] = GetPeer(clients, p)]
    /\ clients' = MapRemove(clients, p)
    /\ pc' = [pc EXCEPT ![p] = IF removed_peer'[p] = None THEN "closed" ELSE "rm_rooms"]
    /\ UNCHANGED << clients_waiting, clients_in_queue, rooms, outbox, room,
                    peers, todo, nrequests >>

\* remove_peer, second lock
RemovePeerRoom(p) ==
    /\ pc[p] = "rm_rooms"
    /\ rooms' = RemovePeerRooms(rooms, removed_peer[p][1].room, p)
    /\ pc' = [pc EXCEPT ![p] = "get_room"]
    /\ UNCHANGED << clients_waiting, clients_in_queue, clients, outbox, room,
                    peers, todo, request, removed_peer, nrequests >>

OtherPeersBug(p) ==
    /\ pc[p] = "get_room"
    /\ todo' = [todo EXCEPT ![p] = peers[p]]
    /\ pc' = [pc EXCEPT ![p] = IF todo'[p] = {} THEN "closed" ELSE "leaving"]
    /\ UNCHANGED << directory, outbox, room, peers, request, removed_peer, nrequests >>

\* get_room_peers(&room) filtered by other_id != peer_id
OtherPeers(p) ==
    /\ pc[p] = "get_room"
    /\ todo' = [todo EXCEPT ![p] =
                  GetRoomPeers(rooms, removed_peer[p][1].room) \ {p}]
    /\ pc' = [pc EXCEPT ![p] = IF todo'[p] = {} THEN "closed" ELSE "leaving"]
    /\ UNCHANGED << directory, outbox, room, peers, request, removed_peer, nrequests >>

NotifyPeerLeftTwice(p, m) ==
    /\ pc[p] = "leaving"
    /\ m \in todo[p]
    /\ outbox' = TrySend(clients,
                         TrySend(clients, outbox, m, PeerLeft(removed_peer[p][1].uuid)),
                         m, PeerLeft(removed_peer[p][1].uuid))
    /\ todo' = [todo EXCEPT ![p] = @ \ {m}]
    /\ pc' = [pc EXCEPT ![p] = IF todo'[p] = {} THEN "closed" ELSE "leaving"]
    /\ UNCHANGED << directory, room, peers, request, removed_peer, nrequests >>

\* one iteration of `for peer_id in other_peers`: try_send(peer_id, PeerLeft(me))
NotifyPeerLeft(p, m) ==
    /\ pc[p] = "leaving"
    /\ m \in todo[p]
    /\ outbox' = TrySend(clients, outbox, m, PeerLeft(removed_peer[p][1].uuid))
    /\ todo' = [todo EXCEPT ![p] = @ \ {m}]
    /\ pc' = [pc EXCEPT ![p] = IF todo'[p] = {} THEN "closed" ELSE "leaving"]
    /\ UNCHANGED << directory, room, peers, request, removed_peer, nrequests >>

\* The life of the connections: handshake, join, departure
Lifecycle ==
    \/ \E p \in Peers, r \in RequestedRoom : OnConnectionRequest(p, r)
    \/ \E p \in Peers : OnIdAssignment(p)
    \/ \E p \in Peers : AddPeerInsert(p)
    \/ \E p \in Peers : AddPeerJoin(p)
    \/ \E p \in Peers, m \in Peers : NotifyNewPeer(p, m)
    \/ \E p \in Peers, req \in Inputs : ReceiveFatal(p, req)
    \/ \E p \in Peers : RemovePeerClients(p)
    \/ \E p \in Peers : RemovePeerRoom(p)
    \/ \E p \in Peers : OtherPeers(p)
    \/ \E p \in Peers, m \in Peers : NotifyPeerLeft(p, m)

\* The message loop of the connections
Relay ==
    \/ \E p \in Peers, req \in Inputs : ReceiveRequest(p, req)
    \/ \E p \in Peers : SignalLookup(p)
    \/ \E p \in Peers : SignalSend(p)
    \/ \E p \in Peers : KeepAlive(p)
    \/ \E p \in Peers : RecoverableError(p)

\* Connections that join and leave and send no request in between
Next == Lifecycle

Spec == Init /\ [][Next]_vars

\* The same connections, relaying up to MaxRequests requests
NextRelay == Lifecycle \/ Relay

SpecRelay == Init /\ [][NextRelay]_vars


\* ---------------------------------------------- the directory, used in turn
\* The same operations called one after the other by a single caller: a
\* whole join (Joining -> Active) and a whole departure (Active -> Closed)
\* are one step each, and the departure may run again for an identity that
\* has already been removed.

RECURSIVE SendAll(_, _, _, _)
\* a for loop of try_send over the identities ids
SendAll(cl, ob, ids, msg) ==
    IF ids = {} THEN ob
    ELSE LET m == CHOOSE x \in ids : TRUE IN
         SendAll(cl, TrySend(cl, ob, m, msg), ids \ {m}, msg)

\* state_machine up to the message loop: claim, add_peer, NewPeer to the
\* peers returned
SeqJoin(p, r) ==
    /\ pc[p] = "init"
    /\ LET cl == MapInsert(clients, p, Peer(p, r))
           prev == PrevPeers(rooms, r) IN
       /\ clients' = cl
       /\ rooms' = AddPeerRooms(rooms, r, p)
       /\ peers' = [peers EXCEPT ![p] = prev]
       /\ outbox' = SendAll(cl, outbox, prev, NewPeer(p))
    /\ room' = [room EXCEPT ![p] = Some(r)]
    /\ pc' = [pc EXCEPT ![p] = "active"]
    /\ UNCHANGED << clients_waiting, clients_in_queue, todo, request,
                    removed_peer, nrequests >>

SeqCloseBug(p) ==
    /\ pc[p] \in {"active", "closed"}
    /\ LET removed == GetPeer(clients, p)
           cl == MapRemove(clients, p)
           rs == RemovePeerRooms(rooms, room[p][1], p) IN
       /\ removed_peer' = [removed_peer EXCEPT ![p] = removed]
       /\ clients' = cl
       /\ rooms' = rs
       /\ outbox' = SendAll(cl, outbox, GetRoomPeers(rs, room[p][1]) \ {p},
                            PeerLeft(p))
    /\ pc' = [pc EXCEPT ![p] = "closed"]
    /\ UNCHANGED << clients_waiting, clients_in_queue, room, peers, todo,
                    request, nrequests >>

\* state_machine after the message loop: remove_peer and, if a peer was
\* removed, PeerLeft to the peers of its room
SeqClose(p) ==
    /\ pc[p] \in {"active", "closed"}
    /\ LET removed == GetPeer(clients, p)
           cl == MapRemove(clients, p) IN
       /\ removed_peer' = [removed_peer EXCEPT ![p] = removed]
       /\ clients' = cl
       /\ IF removed # None
          THEN LET rs == RemovePeerRooms(rooms, removed[1].room, p) IN
               /\ rooms' = rs
               /\ outbox' = SendAll(cl, outbox,
                                    GetRoomPeers(rs, removed[1].room) \ {p},
                                    PeerLeft(removed[1].uuid))
          ELSE UNCHANGED << rooms, outbox >>
    /\ pc' = [pc EXCEPT ![p] = "closed"]
    /\ UNCHANGED << clients_waiting, clients_in_queue, room, peers, todo,
                    request, nrequests >>

NextSeq ==
    \/ \E p \in Peers, r \in RequestedRoom : SeqJoin(p, r)
    \/ \E p \in Peers : SeqClose(p)

SpecSeq == Init /\ [][NextSeq]_vars


\* ------------------------------------------- the `next` query parameter
\* on_connection_request reads the capacity of the room from the query:
\* query_params.get("next").and_then(|next| next.parse::<usize>().ok()).
\* A parameter is a string of characters; the model handles the builds with
\* and without overflow checks, and a mutex poisoned by a panic.

Digits == << "0", "1", "2", "3", "4", "5", "6", "7", "8", "9" >>

IsDigit(c) == \E i \in 1..Len(Digits) : Digits[i] = c

DigitValue(c) == (CHOOSE i \in 1..Len(Digits) : Digits[i] = c) - 1

RECURSIVE Decimal(_)
\* value of a non-empty string of decimal digits
Decimal(s) ==
    IF s = << >> THEN 0
    ELSE 10 * Decimal(SubSeq(s, 1, Len(s) - 1)) + DigitValue(s[Len(s)])

\* str::parse::<usize>().ok(): an optional "+" and at least one digit,
\* nothing else
ParseUsize(s) ==
    LET body == IF s # << >> /\ s[1] = "+" THEN Tail(s) ELSE s IN
    IF body # << >> /\ \A i \in 1..Len(body) : IsDigit(body[i])
    THEN Some(Decimal(body))
    ELSE None

\* values of the parameter a client may send
NextParams ==
    {<< Digits[n + 1] >> : n \in 0..MaxCap}
       \cup {<< >>, << "+", "1" >>, << "-", "1" >>, << "x" >>}

\* query_params.get("next")
Query == {None} \cup {Some(s) : s \in NextParams}

\* the RequestedRoom built from the path and the query
RoomOfRequest(id, q) ==
    [id |-> id, next |-> IF q = None THEN None ELSE ParseUsize(q[1])]

\* on_connection_request for a request with path id and query q
OnRequestQuery(p, id, q) == OnConnectionRequest(p, RoomOfRequest(id, q))

\* a task panicked inside add_peer while it held the guard of `rooms`: the
\* mutex is poisoned and every later rooms.lock().unwrap() panics
RoomsPoisoned == \E p \in Peers : pc[p] = "panic_add_peer"

\* the task of p panics on rooms.lock().unwrap()
PoisonPanic(p) ==
    /\ pc' = [pc EXCEPT ![p] = "panicked"]
    /\ UNCHANGED << directory, outbox, room, peers, todo, request,
                    removed_peer, nrequests >>

\* add_peer, second lock, for any usize capacity.  `num_players - 1` with
\* num_players = 0 panics in a build with overflow checks (after
\* entry(room).or_default() has created the set) and wraps to usize::MAX
\* in a build without, where the comparison is then false.
AddPeerJoinOrPanic(p) ==
    /\ pc[p] = "add_rooms"
    /\ IF RoomsPoisoned THEN PoisonPanic(p)
       ELSE IF room[p][1].next = Some(0)
       THEN \/ /\ rooms' = MapInsert(rooms, room[p][1], PrevPeers(rooms, room[p][1]))
               /\ pc' = [pc EXCEPT ![p] = "panic_add_peer"]
               /\ UNCHANGED << clients_waiting, clients_in_queue, clients,
                               outbox, room, peers, todo, request,
                               removed_peer, nrequests >>
            \/ AddPeerJoin(p)
       ELSE AddPeerJoin(p)

\* remove_peer, second lock
RemovePeerRoomOrPanic(p) ==
    /\ pc[p] = "rm_rooms"
    /\ IF RoomsPoisoned THEN PoisonPanic(p) ELSE RemovePeerRoom(p)

\* get_room_peers
OtherPeersOrPanic(p) ==
    /\ pc[p] = "get_room"
    /\ IF RoomsPoisoned THEN PoisonPanic(p) ELSE OtherPeers(p)

NextQuery ==
    \/ \E p \in Peers, id \in RoomIds, q \in Query : OnRequestQuery(p, id, q)
    \/ \E p \in Peers : OnIdAssignment(p)
    \/ \E p \in Peers : AddPeerInsert(p)
    \/ \E p \in Peers : AddPeerJoinOrPanic(p)
    \/ \E p \in Peers, m \in Peers : NotifyNewPeer(p, m)
    \/ \E p \in Peers, req \in Inputs : ReceiveFatal(p, req)
    \/ \E p \in Peers : RemovePeerClients(p)
    \/ \E p \in Peers : RemovePeerRoomOrPanic(p)
    \/ \E p \in Peers : OtherPeersOrPanic(p)
    \/ \E p \in Peers, m \in Peers : NotifyPeerLeft(p, m)

\* Connections that join and leave, with the capacity the client sent
SpecQuery == Init /\ [][NextQuery]_vars


\* ------------------------------------------------ the handshake, lock by lock
\* The pending maps with every critical section a step of its own, and with
\* addresses that are not one per connection: the transport keys a pending
\* request by the SocketAddr it came from, and a later request may come
\* from the address of an earlier one.  expect() panics while the guard of
\* the map is held: the mutex is poisoned.

\* connection.origin: the last connection comes from the address of the first
Origin(c) == IF c = NumPeers THEN 1 ELSE c

WaitingPoisoned == \E c \in Peers : pc[c] = "panic_waiting"

QueuePoisoned == \E c \in Peers : pc[c] = "panic_queue"

\* the callback or task of c panics; the maps stay as they are
Panic(c, at) ==
    /\ pc' = [pc EXCEPT ![c] = at]
    /\ UNCHANGED << directory, outbox, room, peers, todo, request,
                    removed_peer, nrequests >>

\* add_waiting_client(origin, room): HashMap::insert
AddWaitingClient(c, r) ==
    /\ pc[c] = "init"
    /\ IF WaitingPoisoned THEN Panic(c, "panicked")
       ELSE /\ clients_waiting' = MapInsert(clients_waiting, Origin(c), r)
            /\ pc' = [pc EXCEPT ![c] = "waiting"]
            /\ UNCHANGED << clients_in_queue, clients, rooms, outbox, room,
                            peers, todo, request, removed_peer, nrequests >>

\* assign_id_to_waiting_client, first block:
\* clients_waiting.remove(&origin).expect("waiting client")
AssignIdRemove(c) ==
    /\ pc[c] = "waiting"
    /\ IF WaitingPoisoned THEN Panic(c, "panicked")
       ELSE IF Origin(c) \notin DOMAIN clients_waiting
       THEN Panic(c, "panic_waiting")
       ELSE /\ room' = [room EXCEPT ![c] = Some(clients_waiting[Origin(c)])]
            /\ clients_waiting' = MapRemove(clients_waiting, Origin(c))
            /\ pc' = [pc EXCEPT ![c] = "assign"]
            /\ UNCHANGED << clients_in_queue, clients, rooms, outbox, peers,
                            todo, request, removed_peer, nrequests >>

\* assign_id_to_waiting_client, second block:
\* clients_in_queue.insert(peer_id, room)
AssignIdInsert(c) ==
    /\ pc[c] = "assign"
    /\ IF QueuePoisoned THEN Panic(c, "panicked")
       ELSE /\ clients_in_queue' = MapInsert(clients_in_queue, c, room[c][1])
            /\ room' = [room EXCEPT ![c] = None]
            /\ pc' = [pc EXCEPT ![c] = "queued"]
            /\ UNCHANGED << clients_waiting, clients, rooms, outbox, peers,
                            todo, request, removed_peer, nrequests >>

\* remove_waiting_peer(peer_id):
\* clients_in_queue.remove(&peer_id).expect("waiting peer")
RemoveWaitingPeer(c) ==
    /\ pc[c] = "queued"
    /\ IF QueuePoisoned THEN Panic(c, "panicked")
       ELSE IF c \notin DOMAIN clients_in_queue
       THEN Panic(c, "panic_queue")
       ELSE /\ room' = [room EXCEPT ![c] = Some(clients_in_queue[c])]
            /\ clients_in_queue' = MapRemove(clients_in_queue, c)
            /\ pc' = [pc EXCEPT ![c] = "claimed"]
            /\ UNCHANGED << clients_waiting, clients, rooms, outbox, peers,
                            todo, request, removed_peer, nrequests >>

NextHandshake ==
    \/ \E c \in Peers, r \in RequestedRoom : AddWaitingClient(c, r)
    \/ \E c \in Peers : AssignIdRemove(c)
    \/ \E c \in Peers : AssignIdInsert(c)
    \/ \E c \in Peers : RemoveWaitingPeer(c)

\* Connections from their request to the start of their task
SpecHandshake == Init /\ [][NextHandshake]_vars

\* ================================================================ claims
\* Positions of a connection's task
HasJoined(p) ==
    pc[p] \in {"notify", "active", "handle", "sig_send",
               "rm_rooms", "get_room", "leaving", "closed"}
InLoop(p) == pc[p] \in {"notify", "active", "handle", "sig_send"}
PastNotify(p) ==
    pc[p] \in {"active", "handle", "sig_send",
               "rm_rooms", "get_room", "leaving", "closed"}
Removing(p) == pc[p] \in {"rm_rooms", "get_room", "leaving", "closed"}

\* p and r were in the room's membership set together: one of them was
\* told of the other's arrival
Met(p, r) ==
    \/ Count(outbox[r], NewPeer(p)) > 0
    \/ Count(outbox[p], NewPeer(r)) > 0

\* C1: when the connection of peer p has closed, every other peer r of the
\* same RequestedRoom that was in the room with p and is still active has
\* exactly one PeerLeft(p) in its channel, and p has none in its own; this
\* for rooms with a capacity too, also after the fill-reset.
C1_PeerLeftToRoomMates ==
    \A p \in Peers :
        /\ Count(outbox[p], PeerLeft(p)) = 0
        /\ \A r \in Peers \ {p} :
              (pc[p] = "closed" /\ InLoop(r) /\ room[r] = room[p] /\ Met(p, r))
                 => Count(outbox[r], PeerLeft(p)) = 1

\* the same statement for the rooms without a capacity only (it holds there)
C1_OpenRoomsOnly ==
    \A p \in Peers :
        /\ Count(outbox[p], PeerLeft(p)) = 0
        /\ \A r \in Peers \ {p} :
              (pc[p] = "closed" /\ InLoop(r) /\ room[r] = room[p] /\ Met(p, r)
                 /\ room[p][1].next = None)
                 => Count(outbox[r], PeerLeft(p)) = 1

\* the peers other than p that have joined room r
JoinedBefore(p, r) == {q \in Peers \ {p} : HasJoined(q) /\ room[q] = Some(r)}

\* C2: in a room of capacity N from which no peer has been removed, the join
\* of the N-th peer returns exactly the N-1 peers joined before it and
\* leaves the membership set empty, and the join of the (N+1)-th peer
\* returns no peer (a fresh batch).
C2_FillAndReset ==
    [][\A p \in Peers :
          (pc[p] = "add_rooms" /\ pc'[p] # "add_rooms"
             /\ room[p][1].next # None
             /\ \A q \in JoinedBefore(p, room[p][1]) : ~Removing(q))
          => LET r == room[p][1]
                 N == r.next[1]
                 J == JoinedBefore(p, r) IN
             /\ Cardinality(J) = N - 1
                  => /\ peers'[p] = J
                     /\ GetRoomPeers(rooms', r) = {}
             /\ Cardinality(J) = N
                  => /\ peers'[p] = {}
                     /\ GetRoomPeers(rooms', r) \subseteq {p}
      ]_vars

\* C2 witness: three peers have joined a room of capacity 2, none removed;
\* the second got the first, the third got nobody and waits alone
C2_Witness ==
    \E a, b, c \in Peers :
        /\ Cardinality({a, b, c}) = 3
        /\ \A q \in {a, b, c} : InLoop(q) /\ room[q] = Some([id |-> "lobby", next |-> Some(2)])
        /\ peers[a] = {} /\ peers[b] = {a} /\ peers[c] = {}
        /\ GetRoomPeers(rooms, [id |-> "lobby", next |-> Some(2)]) = {c}

\* C3 as stated: a peer that has joined has exactly one NewPeer in its own
\* channel for each room-mate that was in the room before it
C3_JoinerIsToldOfRoomMates ==
    \A p \in Peers :
        PastNotify(p) => \A r \in peers[p] : Count(outbox[p], NewPeer(r)) = 1

\* C3 amended: it is the room-mates found in the room that are told of the
\* newcomer.  A peer r has NewPeer(p) at most once, only if r was in the
\* room when p joined, and exactly once if so and r is still active after
\* p's notifications; p has no NewPeer for a peer that was there before it.
C3_RoomMatesAreToldOfJoiner ==
    \A p \in Peers : \A r \in Peers :
        /\ Count(outbox[r], NewPeer(p)) <= 1
        /\ Count(outbox[r], NewPeer(p)) = 1 => r \in peers[p] /\ r # p
        /\ r \in peers[p] => Count(outbox[p], NewPeer(r)) = 0
        /\ (PastNotify(p) /\ r \in peers[p] /\ r \in DOMAIN clients)
              => Count(outbox[r], NewPeer(p)) = 1

\* C3 witness: p joined after r and before q: r has NewPeer(p), p has
\* NewPeer(q) and nothing about r
C3_Witness ==
    \E p, r, q \in Peers :
        /\ Cardinality({p, r, q}) = 3
        /\ PastNotify(p) /\ PastNotify(q)
        /\ r \in peers[p] /\ p \in peers[q]
        /\ Count(outbox[r], NewPeer(p)) = 1
        /\ Count(outbox[p], NewPeer(q)) = 1
        /\ Count(outbox[p], NewPeer(r)) = 0

\* C4: each iteration of the NewPeer loop of p appends NewPeer(p) to the
\* channel of the member it takes if that member is in clients, and changes
\* no channel otherwise; either way the loop goes on with the members left
\* and ends in the message loop, at which point every returned member that
\* is still in clients has NewPeer(p) exactly once.
C4_NewPeerLoop ==
    [][\A p \in Peers :
          /\ pc[p] = "notify" => pc'[p] \in {"notify", "active"}
          /\ pc'[p] = "notify" => todo'[p] # {}
          /\ (pc[p] = "notify" /\ todo'[p] # todo[p])
                => /\ todo'[p] \subseteq todo[p]
                   /\ Cardinality(todo[p] \ todo'[p]) = 1
                   /\ \A m \in todo[p] \ todo'[p] :
                         IF m \in DOMAIN clients
                         THEN outbox' = [outbox EXCEPT ![m] = Append(@, NewPeer(p))]
                         ELSE outbox' = outbox
          /\ (pc[p] \in {"add_rooms", "notify"} /\ pc'[p] = "active")
                => \A r \in peers'[p] :
                      r \in DOMAIN clients' => Count(outbox'[r], NewPeer(p)) = 1
      ]_vars

\* C4 witness: p is in its message loop; the send to the returned member r
\* failed (r had left), the one to the returned member s was made
C4_Witness ==
    \E p, r, s \in Peers :
        /\ pc[p] = "active"
        /\ r \in peers[p] /\ s \in peers[p] /\ r # s
        /\ r \notin DOMAIN clients /\ Count(outbox[r], NewPeer(p)) = 0
        /\ s \in DOMAIN clients /\ Count(outbox[s], NewPeer(p)) = 1

\* the peers that have joined room r and have not been removed from it
JoinedNotRemoved(r) ==
    {q \in Peers : room[q] = Some(r) /\ (InLoop(q) \/ pc[q] = "rm_rooms")}

\* C5: the membership set of a room without a capacity is the set of the
\* identities that add_peer has joined to it minus those remove_peer has
\* removed.
C5_OpenRoomMembers ==
    \A r \in RequestedRoom :
        r.next = None => GetRoomPeers(rooms, r) = JoinedNotRemoved(r)

\* C5 witness: an open room after two joins and a removal
C5_Witness ==
    \E r \in RequestedRoom : \E a, b \in Peers :
        /\ r.next = None /\ a # b
        /\ room[a] = Some(r) /\ room[b] = Some(r)
        /\ pc[a] = "closed" /\ pc[b] = "active"
        /\ b \in peers[a]
        /\ GetRoomPeers(rooms, r) = {b}

\* C6: a Signal request of peer a whose receiver is in clients when a looks
\* it up is relayed: the next step of a appends Signal{sender: a, data} with
\* the data of the request to the channel of the receiver, and to no other
\* channel, whatever the rooms of the two peers.
C6_SignalRelayed ==
    [][\A a \in Peers :
          /\ (pc[a] = "handle" /\ pc'[a] # "handle"
                /\ request[a][1].kind = "Signal"
                /\ request[a][1].receiver \in DOMAIN clients)
                => /\ pc'[a] = "sig_send"
                   /\ request'[a] = request[a]
                   /\ outbox' = outbox
          /\ (pc[a] = "sig_send" /\ pc'[a] # "sig_send")
                => /\ pc'[a] = "active"
                   /\ outbox' = [outbox EXCEPT ![request[a][1].receiver] =
                                    Append(@, Signal(a, request[a][1].data))]
                   /\ UNCHANGED directory
      ]_vars

\* C6 witness: x, active and in no waiting set, has the signal of a peer of
\* another room
C6_Witness ==
    \E a, x \in Peers :
        /\ a # x
        /\ InLoop(a) /\ InLoop(x)
        /\ room[a] # room[x]
        /\ x \notin GetRoomPeers(rooms, room[x][1])
        /\ \E d \in Payloads : outbox[x] = << Signal(a, d) >>
        /\ \A q \in Peers \ {x} : Count(outbox[q], Signal(a, "offer")) = 0

\* some step of a handles the Signal request it has read
SignalStep(a) ==
    \/ pc[a] = "handle" /\ pc'[a] # "handle" /\ request[a][1].kind = "Signal"
    \/ pc[a] = "sig_send" /\ pc'[a] # "sig_send"

\* C7 as stated: no step of the relay of a Signal whose receiver is not
\* (or no longer) in clients enqueues an event, changes the directory or
\* takes the sender out of its message loop
C7_NothingSentToDeparted ==
    [][\A a \in Peers :
          (SignalStep(a) /\ request[a][1].receiver \notin DOMAIN clients)
             => /\ pc'[a] \in {"active", "sig_send"}
                /\ outbox' = outbox
                /\ UNCHANGED directory
      ]_vars

\* C7 amended: a Signal whose receiver is not in clients when the sender
\* looks it up is dropped: the sender is back in its message loop, no
\* channel and no map has changed.  If the receiver is removed after the
\* lookup, the event is still enqueued on the handle that was cloned; the
\* sender stays in its message loop and the directory is unchanged.
C7_UnknownReceiverDropped ==
    [][\A a \in Peers :
          /\ (pc[a] = "handle" /\ pc'[a] # "handle"
                /\ request[a][1].kind = "Signal"
                /\ request[a][1].receiver \notin DOMAIN clients)
                => /\ pc'[a] = "active"
                   /\ request'[a] = None
                   /\ outbox' = outbox
                   /\ UNCHANGED directory
          /\ SignalStep(a)
                => /\ pc'[a] \in {"active", "sig_send"}
                   /\ UNCHANGED directory
                   /\ \A q \in Peers \ {request[a][1].receiver} :
                         outbox'[q] = outbox[q]
      ]_vars

\* C7 witness: a has read a Signal for a peer that has joined and left
C7_Witness ==
    \E a \in Peers :
        /\ pc[a] = "handle"
        /\ request[a][1].kind = "Signal"
        /\ request[a][1].receiver # a
        /\ Removing(request[a][1].receiver)
        /\ request[a][1].receiver \notin DOMAIN clients

\* C8: handling a KeepAlive changes none of the four maps and no channel,
\* and the connection is back in its message loop.
C8_KeepAliveNoEffect ==
    [][\A p \in Peers :
          (pc[p] = "handle" /\ pc'[p] # "handle"
             /\ request[p][1].kind = "KeepAlive")
          => /\ pc'[p] = "active"
             /\ UNCHANGED directory
             /\ outbox' = outbox
      ]_vars

\* C8 witness: a KeepAlive is being handled by a peer that is in the
\* membership set of its room with another peer
C8_Witness ==
    \E p \in Peers :
        /\ pc[p] = "handle"
        /\ request[p][1].kind = "KeepAlive"
        /\ p \in GetRoomPeers(rooms, room[p][1])
        /\ Cardinality(GetRoomPeers(rooms, room[p][1])) > 1

\* C9: the first departure of an identity finds its peer; a departure run
\* again for it finds none, changes none of the four maps and sends nothing.
C9_RemoveTwice ==
    [][\A p \in Peers :
          /\ (pc[p] = "active" /\ pc'[p] = "closed")
                => removed_peer'[p] = Some(Peer(p, room[p][1]))
          /\ (pc[p] = "closed" /\ removed_peer'[p] # removed_peer[p])
                => /\ removed_peer'[p] = None
                   /\ UNCHANGED directory
                   /\ outbox' = outbox
      ]_vars

\* C9 witness: p was removed twice while a peer of its room is still there
C9_Witness ==
    \E p, q \in Peers :
        /\ p # q
        /\ pc[p] = "closed" /\ removed_peer[p] = None
        /\ pc[q] = "active" /\ room[q] = room[p]
        /\ q \in GetRoomPeers(rooms, room[p][1])
        /\ Count(outbox[q], PeerLeft(p)) = 1

\* C10: every identity in a membership set has a peer in clients whose room
\* is the key of that set.
C10_MembersAreActive ==
    \A r \in DOMAIN rooms : \A q \in rooms[r] :
        q \in DOMAIN clients /\ clients[q].room = r

\* the departure of connection p: the steps of its task from the end of
\* its input to the end of the task
Departure(p) ==
    \/ RemovePeerClients(p)
    \/ RemovePeerRoom(p)
    \/ OtherPeers(p)
    \/ \E m \in Peers : NotifyPeerLeft(p, m)

\* The runtime goes on polling a task that can run: the departure of a
\* connection, once it can take a step, takes it.
SpecLive == Spec /\ \A p \in Peers : WF_vars(Departure(p))

\* p is in no membership set and has no peer in clients
Released(p) ==
    /\ p \notin DOMAIN clients
    /\ \A r \in DOMAIN rooms : p \notin rooms[r]

\* the task of a connection that had joined is over: it returned, or it
\* panicked in its departure
TaskOver(p) ==
    \/ pc[p] = "closed"
    \/ pc[p] = "panicked" /\ removed_peer[p] # None

\* C11: the task of a joined connection whose input has ended or failed
\* ends in Closed and not otherwise, and from then on its identity is in
\* neither clients nor any membership set.
C11_ClosedAndReleased ==
    \A p \in Peers : TaskOver(p) => pc[p] = "closed" /\ Released(p)

\* the same for rooms whose capacity is unset or at least 1, where no task
\* panics: under SpecLive the end of the input leads to Closed, and a
\* closed connection has released its entries (this holds)
C11_EventuallyClosed ==
    \A p \in Peers :
        (pc[p] = "handle" /\ Fatal(request[p][1])) ~> (pc[p] = "closed")

\* a closed connection is in neither clients nor any membership set
C11_ClosedIsReleased ==
    \A p \in Peers : pc[p] = "closed" => Released(p)

\* C12: a request from an address that already has an entry in
\* clients_waiting is refused, and the entry keeps its RequestedRoom.
C12_DuplicateAddressRefused ==
    [][\A c \in Peers :
          (pc[c] = "init" /\ pc'[c] # "init"
             /\ Origin(c) \in DOMAIN clients_waiting)
             => /\ pc'[c] \notin {"waiting", "assign", "queued", "claimed"}
                /\ clients_waiting' = clients_waiting]_vars

\* C13: the promotion of an address without an entry, or the claim of an
\* identity without one, ends that connection only: no other connection
\* fails in its own request, promotion or claim because of it.
C13_FailureStaysLocal ==
    \A c \in Peers : pc[c] # "panicked"

\* C14: a connection that has registered and is not yet claimed has its
\* RequestedRoom under its address in clients_waiting or under its
\* identity in clients_in_queue, and not in both.
C14_ExactlyOnePending ==
    \A c \in Peers :
        pc[c] \in {"waiting", "assign", "queued"}
           => (Origin(c) \in DOMAIN clients_waiting)
                 # (c \in DOMAIN clients_in_queue)

\* C15: every identity that add_peer returns to a joining peer has its peer
\* in clients at the step that takes the snapshot; so no peer that was
\* already removed from clients counts towards the N-1 that complete a room.
C15_SnapshotIsActive ==
    [][\A p \in Peers :
          (pc[p] = "add_rooms" /\ pc'[p] # "add_rooms")
             => peers'[p] \subseteq DOMAIN clients]_vars

C17_CapacityPositive ==
    /\ \A a \in DOMAIN clients_waiting :
          clients_waiting[a].next = None \/ clients_waiting[a].next[1] >= 1
    /\ \A p \in Peers : pc[p] # "panic_add_peer"

\* C18 as stated: a peer r that joined the room of p after remove_peer(p)
\* had taken p out of the membership set never gets PeerLeft(p).  In a room
\* without a capacity, r joined after the removal of p exactly when neither
\* of the two found the other in the set at its own join.
C18_NoPeerLeftToLaterJoiner ==
    \A p \in Peers : \A r \in Peers \ {p} :
        (/\ HasJoined(p) /\ HasJoined(r)
         /\ room[p] = room[r] /\ room[p][1].next = None
         /\ r \notin peers[p] /\ p \notin peers[r])
           => Count(outbox[r], PeerLeft(p)) = 0

\* C18 amended: PeerLeft(p) goes to the peers that get_room_peers returns
\* to the task of p after remove_peer(p), p itself left out, and to no
\* other: every PeerLeft(p) is enqueued by an iteration of the loop of p
\* for a member of that list, and a peer that joins after the list was
\* read gets none.
C18_PeerLeftToListedPeers ==
    [][\A p \in Peers :
          /\ (pc[p] = "get_room" /\ pc'[p] # "get_room")
                => todo'[p] = GetRoomPeers(rooms, removed_peer[p][1].room) \ {p}
          /\ pc[p] = "leaving" => todo'[p] \subseteq todo[p]
          /\ \A r \in Peers :
                Count(outbox'[r], PeerLeft(p)) > Count(outbox[r], PeerLeft(p))
                   => /\ pc[p] = "leaving"
                      /\ r \in todo[p]
                      /\ r \notin todo'[p]
                      /\ r # p]_vars

\* C18 witness: r joined after p was taken out of the membership set, and
\* has PeerLeft(p) in its channel
C18_Witness ==
    \E p \in Peers : \E r \in Peers \ {p} :
        /\ pc[p] = "closed" /\ InLoop(r)
        /\ room[p] = room[r] /\ room[p][1].next = None
        /\ r \notin peers[p] /\ p \notin peers[r]
        /\ Count(outbox[r], PeerLeft(p)) = 1

\* C19: the membership set of a room of capacity N >= 1 never holds more
\* than N - 1 identities.
C19_AtMostCapacityLessOne ==
    \A r \in DOMAIN rooms :
        (r.next # None /\ r.next[1] >= 1)
           => Cardinality(rooms[r]) <= r.next[1] - 1

\* C19 witness: a room of capacity MaxCap holds MaxCap - 1 identities after
\* a batch was completed and one of its peers has left
C19_Witness ==
    \E r \in DOMAIN rooms :
        /\ r.next = Some(MaxCap)
        /\ Cardinality(rooms[r]) = MaxCap - 1
        /\ \E p \in Peers : room[p] = Some(r) /\ Cardinality(peers[p]) = MaxCap - 1
        /\ \E q \in Peers : room[q] = Some(r) /\ pc[q] = "closed"

\* positions of event e in channel q
Positions(q, e) == {i \in 1..Len(q) : q[i] = e}

\* C20: the channel of a peer r holds NewPeer(p) at most once and
\* PeerLeft(p) at most once, and when it holds both, NewPeer(p) comes first.
C20_NewPeerBeforePeerLeft ==
    \A p \in Peers, r \in Peers :
        /\ Count(outbox[r], NewPeer(p)) <= 1
        /\ Count(outbox[r], PeerLeft(p)) <= 1
        /\ \A i \in Positions(outbox[r], NewPeer(p)) :
              \A j \in Positions(outbox[r], PeerLeft(p)) : i < j

\* C20 witness: r was told of the arrival of p and of its departure, with
\* the arrival of another peer in between
C20_Witness ==
    \E p \in Peers, r \in Peers :
        \E i \in Positions(outbox[r], NewPeer(p)) :
            \E j \in Positions(outbox[r], PeerLeft(p)) : j > i + 1

\* the peer an event of type NewPeer or PeerLeft is about, in a set
AboutPeer(e) == IF e.type \in {"NewPeer", "PeerLeft"} THEN {e.peer} ELSE {}

\* C21: rooms is keyed by the whole RequestedRoom, id and next.  The peers
\* add_peer returns to p have the RequestedRoom of p; every NewPeer and
\* PeerLeft enqueued on the channel of r is about a peer with the
\* RequestedRoom of r; and a step of add_peer or remove_peer changes the
\* membership set of the RequestedRoom of the peer it acts for and no other.
C21_KeyedByWholeDescriptor ==
    [][/\ \A p \in Peers :
             (pc[p] = "add_rooms" /\ pc'[p] # "add_rooms")
                => \A q \in peers'[p] : room[q] = room[p]
       /\ \A r \in Peers :
             Len(outbox'[r]) > Len(outbox[r])
                => \A q \in AboutPeer(outbox'[r][Len(outbox'[r])]) :
                      room[q] = room[r]
       /\ \A d \in RequestedRoom :
             GetRoomPeers(rooms', d) # GetRoomPeers(rooms, d)
                => \E p \in Peers :
                      /\ pc[p] \in {"add_rooms", "rm_rooms"}
                      /\ pc'[p] # pc[p]
                      /\ room[p] = Some(d)]_vars

\* C21 witness: two peers met in the room "lobby" without a capacity and
\* one of them left, while a third waits alone in "lobby" with capacity
\* MaxCap: it was returned no peer and was sent no event
C21_Witness ==
    \E a \in Peers : \E b \in Peers \ {a} : \E c \in Peers \ {a, b} :
        /\ room[a] = Some([id |-> "lobby", next |-> None])
        /\ room[b] = room[a]
        /\ room[c] = Some([id |-> "lobby", next |-> Some(MaxCap)])
        /\ peers[b] = {a}
        /\ outbox[a] = << NewPeer(b), PeerLeft(b) >>
        /\ pc[c] = "active" /\ peers[c] = {} /\ outbox[c] = << >>
        /\ GetRoomPeers(rooms, room[a][1]) = {a}
        /\ GetRoomPeers(rooms, room[c][1]) = {c}

====
